---------------------------- MODULE Spec2Model ----------------------------
(***************************************************************************)
(* Model of the CUAVA radiation counter driver (radiation-counter-api).    *)
(*                                                                         *)
(* The driver (RadiationCounter) owns one bus connection and one cached    *)
(* power flag.  Every trait method of CuavaRadiationCounter is one action: *)
(* the method is synchronous and runs to completion, so the action holds   *)
(* the whole handler, the transport call it makes included.  The bus       *)
(* (rust_i2c::Connection) is an external collaborator: a call on it either *)
(* fails with an io::ErrorKind or answers with a byte vector of any        *)
(* length, and a successful write of the set-period frame is remembered by *)
(* the device so that a later read of the period can echo it.              *)
(*                                                                         *)
(* `last` records the operation that ran last: the events it produced in   *)
(* order (sleep / write / transfer), the frame it sent, the length it      *)
(* asked for, what the transport answered and what the method returned.    *)
(***************************************************************************)
EXTENDS Integers, Sequences, FiniteSets, TLC

VARIABLES
    power_status,            \* RadiationCounter.power_status
    power_cmd,               \* argument of the last set_power_status call (TRUE: none yet)
    dev_period,              \* the period byte the device on the bus holds
    wdt_set,                 \* argument of the last successful set_comms_watchdog_period (-1: none)
    current_sum,             \* aggregator: per-channel sum of the current window
    previous_sum,            \* aggregator: per-channel sum of the previous window
    window_start_timestamp,  \* aggregator: start of the current window
    recorded,                \* readings recorded since the last swap (history)
    last                     \* the operation that ran last

vars == <<power_status, power_cmd, dev_period, wdt_set, current_sum, previous_sum,
          window_start_timestamp, recorded, last>>

driver_vars == <<power_status, power_cmd, dev_period, wdt_set>>
aggregator_vars == <<current_sum, previous_sum, window_start_timestamp, recorded>>

---------------------------------------------------------------------------
(* Bounds of the model *)

\* longest response the transport is made to answer with
MaxRespLen == 4
\* largest timestamp handed to an operation that reads the clock
MaxNow == 31
\* most readings recorded into one window
MaxRecords == 2

(* Program constants *)

\* u8
ByteMax == 255
\* RCHk carries three channel readings
ChannelCount == 3
\* the canonical window length
WINDOW_LENGTH == 30
\* the watchdog period a freshly booted device holds
DefaultPeriod == 4

Byte == 0..ByteMax
Channels == 1..ChannelCount

\* bytes the sampled transport answers with / the sampled callers pass
SampleBytes == {0, 2, 4, 45, 255}
\* status (echo) bytes of a response
StatusBytes == {0, 255}
\* bytes a response carries past its second byte
TailBytes == {2}
\* io::ErrorKind values the transport fails with
ErrorKinds == {"TimedOut", "Other"}

---------------------------------------------------------------------------
(* Results and errors: src/src/lib.rs *)

Ok(v) == [tag |-> "Ok", val |-> v]
Err(e) == [tag |-> "Err", val |-> e]
\* the method did not return: it panicked
Panic == [tag |-> "Panic", val |-> "index out of bounds"]
Unit == "()"

IsOk(r) == r.tag = "Ok"
IsErr(r) == r.tag = "Err"
IsOkOf(r, v) == r.tag = "Ok" /\ r.val = v
IsErrOf(r, e) == r.tag = "Err" /\ r.val = e

\* CounterError::parsing_failure(source)
parsing_failure(source) == [kind |-> "ParsingFailure", detail |-> source]

\* faulty variant: the error kind is dropped
I2CError_Bug(kind) == [kind |-> "I2CError", detail |-> "Other"]

\* impl From<std::io::Error> for CounterError
I2CError(kind) == [kind |-> "I2CError", detail |-> kind]

\* rust_i2c::Command { cmd, data }
Command(cmd, data) == [cmd |-> cmd, data |-> data]

---------------------------------------------------------------------------
(* commands/last_error.rs *)

\* faulty variant: the 0x03 arm is missing
ErrorCode_from_u8_Bug(value) ==
    CASE value = 0 -> "None"
      [] value = 1 -> "UnknownCommand"
      [] value = 2 -> "ResetOccurred"
      [] OTHER -> "UnknownError"

ErrorCode_from_u8(value) ==
    CASE value = 0 -> "None"
      [] value = 1 -> "UnknownCommand"
      [] value = 2 -> "ResetOccurred"
      [] value = 3 -> "CommandError"
      [] OTHER -> "UnknownError"

last_error_parse(data) ==
    IF Len(data) = 2
    THEN Ok(ErrorCode_from_u8(data[2]))
    ELSE Err(parsing_failure("Last Error"))

\* (Command, rx_len)
last_error_command == <<Command(3, <<0>>), 4>>

(* commands/reset.rs *)

manual_reset_command == Command(128, <<0>>)

reset_comms_watchdog_command == Command(34, <<0>>)

(* commands/watchdog.rs *)

\* faulty variant: the period is clamped to the documented range 1..90
set_comms_watchdog_period_command_Bug(period) ==
    Command(33, <<IF period < 1 THEN 1 ELSE IF period > 90 THEN 90 ELSE period>>)

set_comms_watchdog_period_command(period) == Command(33, <<period>>)

\* faulty variant: the status byte is returned instead of the value byte
get_comms_watchdog_period_parse_Bug(data) ==
    IF Len(data) = 2
    THEN Ok(data[1])
    ELSE Err(parsing_failure("Comms Watchdog Period"))

get_comms_watchdog_period_parse(data) ==
    IF Len(data) = 2
    THEN Ok(data[2])
    ELSE Err(parsing_failure("Comms Watchdog Period"))

get_comms_watchdog_period_command == <<Command(32, <<0>>), 2>>

---------------------------------------------------------------------------
(* telemetry/counter.rs, telemetry/lib.rs *)

TELEM_CMD == 16

TelemetryTypes == {"Voltage", "Current", "Power"}

telemetry_counter_data(telem_type) ==
    CASE telem_type = "Voltage" -> <<225, 16>>
      [] telem_type = "Current" -> <<225, 20>>
      [] telem_type = "Power" -> <<225, 52>>

telemetry_counter_command(telem_type) ==
    <<Command(TELEM_CMD, telemetry_counter_data(telem_type)), 2>>

\* the host the driver is built for stores integers least significant byte
\* first (the decoder's own test assumes it)
HostLittleEndian == TRUE

\* u16::swap_bytes
swap_bytes(x) == (x % 256) * 256 + (x \div 256)

\* u16::from_be: a byte swap on a little-endian host, nothing on a big-endian one
u16_from_be(x) == IF HostLittleEndian THEN swap_bytes(x) ELSE x

\* faulty variant: the conversion from big-endian is left out
get_adc_result_Bug(data) ==
    IF Len(data) < 2
    THEN Err(parsing_failure("ADC Result"))
    ELSE Ok(data[1] + data[2] * 256)

\* get_adc_result: u16::from(data[0]) | u16::from(data[1]) << 8, then from_be
get_adc_result(data) ==
    IF Len(data) < 2
    THEN Err(parsing_failure("ADC Result"))
    ELSE LET be_val == data[1] + data[2] * 256
         IN  Ok(u16_from_be(be_val))

\* Values of the telemetry closures are decimals with nine places, kept as
\* <<whole, parts>>: the value is whole + parts / NanoPerUnit with
\* 0 <= parts < NanoPerUnit.
NanoPerUnit == 1000000000

\* scale * d + offset, exactly: scale in units of 1e-9 (below 1e9), d a u16,
\* offset as whole units plus (possibly negative) 1e-9 parts.  The product
\* is formed limb by limb so that no intermediate leaves 32 bits.
Linear(scale, d, offset_whole, offset_parts) ==
    LET s0 == scale % 10000
        s1 == (scale \div 10000) % 10000
        s2 == scale \div 100000000
        a0 == s0 * d
        a1 == s1 * d
        a2 == s2 * d
        x == a0 + (a1 % 100000) * 10000
        y == (x % NanoPerUnit) + (a2 % 10) * 100000000
        z == (y % NanoPerUnit) + offset_parts
    IN  <<(a1 \div 100000) + (a2 \div 10) + (x \div NanoPerUnit)
            + (y \div NanoPerUnit) + (z \div NanoPerUnit) + offset_whole,
          z % NanoPerUnit>>

\* the per-channel closure |d| scale * d + offset
telemetry_counter_parser(telem_type, d) ==
    CASE telem_type = "Voltage" -> Linear(32253700, d, 0, -51236678)
      [] telem_type = "Current" -> Linear(978131613, d, 16, 108602910)
      [] telem_type = "Power" -> Linear(979728933, d, 3, 627460224)

telemetry_counter_parse(data, telem_type) ==
    LET adc_data == get_adc_result(data)
    IN  IF IsErr(adc_data)
        THEN adc_data
        ELSE Ok(telemetry_counter_parser(telem_type, adc_data.val))

(* telemetry/reset.rs *)

ResetTypes == {"BrownOut", "AutomaticSoftware", "Manual", "Watchdog"}

telemetry_reset_cmd(reset_type) ==
    CASE reset_type = "BrownOut" -> 49
      [] reset_type = "AutomaticSoftware" -> 50
      [] reset_type = "Manual" -> 51
      [] reset_type = "Watchdog" -> 52

telemetry_reset_command(reset_type) ==
    <<Command(telemetry_reset_cmd(reset_type), <<0>>), 4>>

telemetry_reset_parse(data) ==
    IF Len(data) = 2
    THEN Ok(data[2])
    ELSE Err(parsing_failure("Reset Telemetry"))

---------------------------------------------------------------------------
(* The bus: rust_i2c::Connection, seen from the driver *)

\* a response of n bytes: status byte, value byte, then tail bytes
Resp(n, b0, b1, b2) ==
    [i \in 1..n |-> IF i = 1 THEN b0 ELSE IF i = 2 THEN b1 ELSE b2]

Responses(S, B) ==
    {Resp(n, b0, b1, b2) : n \in 0..MaxRespLen, b0 \in S, b1 \in B, b2 \in TailBytes}

\* what a transfer can come back with
TransferOutcomes(S, B, K) == {Ok(r) : r \in Responses(S, B)} \cup {Err(k) : k \in K}

\* what a write can come back with
WriteOutcomes(K) == {Ok(<<>>)} \cup {Err(k) : k \in K}

\* the device keeps the data byte of a set-period frame that reached it
DeviceAfterWrite(command, out) ==
    IF IsOk(out) /\ command.cmd = 33 /\ Len(command.data) = 1
    THEN command.data[1]
    ELSE dev_period

\* the `?` on an io::Result: the error converted with From, or the continuation
Try(out, cont) == IF IsErr(out) THEN Err(I2CError(out.val)) ELSE cont

NoCommand == Command(-1, <<>>)

Completed(op, arg, events, command, rx_len, out, result) ==
    [op |-> op, arg |-> arg, events |-> events, command |-> command,
     rx_len |-> rx_len, resp |-> out, result |-> result]

---------------------------------------------------------------------------
(* radiation_counter.rs: RadiationCounter and impl CuavaRadiationCounter *)

Zero == [c \in Channels |-> 0]

\* RadiationCounter::new, around a freshly booted device
Init ==
    /\ power_status = TRUE
    /\ power_cmd = TRUE
    /\ dev_period = DefaultPeriod
    /\ wdt_set = -1
    /\ current_sum = Zero
    /\ previous_sum = Zero
    /\ window_start_timestamp = 0
    /\ recorded = <<>>
    /\ last = Completed("new", Unit, <<>>, NoCommand, 0, Ok(<<>>), Ok(Unit))

get_last_error(out) ==
    LET command == last_error_command[1]
        rx_len == last_error_command[2]
    IN  /\ last' = Completed("get_last_error", Unit, <<"sleep", "transfer">>,
                             command, rx_len, out,
                             Try(out, last_error_parse(out.val)))
        /\ UNCHANGED <<driver_vars, aggregator_vars>>

\* faulty variant: the cached power state is set back whether or not the write succeeded
manual_reset_Bug(out) ==
    /\ last' = Completed("manual_reset", Unit, <<"sleep", "write">>,
                         manual_reset_command, 0, out, Try(out, Ok(Unit)))
    /\ dev_period' = DeviceAfterWrite(manual_reset_command, out)
    /\ power_status' = TRUE
    /\ UNCHANGED <<power_cmd, wdt_set, aggregator_vars>>

manual_reset(out) ==
    /\ last' = Completed("manual_reset", Unit, <<"sleep", "write">>,
                         manual_reset_command, 0, out, Try(out, Ok(Unit)))
    /\ dev_period' = DeviceAfterWrite(manual_reset_command, out)
    /\ UNCHANGED <<power_status, power_cmd, wdt_set, aggregator_vars>>

reset_comms_watchdog(out) ==
    /\ last' = Completed("reset_comms_watchdog", Unit, <<"sleep", "write">>,
                         reset_comms_watchdog_command, 0, out, Try(out, Ok(Unit)))
    /\ dev_period' = DeviceAfterWrite(reset_comms_watchdog_command, out)
    /\ UNCHANGED <<power_status, power_cmd, wdt_set, aggregator_vars>>

get_telemetry(telem_type, out) ==
    LET command == telemetry_counter_command(telem_type)[1]
        rx_len == telemetry_counter_command(telem_type)[2]
    IN  /\ last' = Completed("get_telemetry", telem_type, <<"sleep", "transfer">>,
                             command, rx_len, out,
                             Try(out, telemetry_counter_parse(out.val, telem_type)))
        /\ UNCHANGED <<driver_vars, aggregator_vars>>

get_reset_telemetry(telem_type, out) ==
    LET command == telemetry_reset_command(telem_type)[1]
        rx_len == telemetry_reset_command(telem_type)[2]
    IN  /\ last' = Completed("get_reset_telemetry", telem_type, <<"sleep", "transfer">>,
                             command, rx_len, out,
                             Try(out, telemetry_reset_parse(out.val)))
        /\ UNCHANGED <<driver_vars, aggregator_vars>>

set_comms_watchdog_period(period, out) ==
    LET command == set_comms_watchdog_period_command(period)
    IN  /\ last' = Completed("set_comms_watchdog_period", period, <<"sleep", "write">>,
                             command, 0, out, Try(out, Ok(Unit)))
        /\ dev_period' = DeviceAfterWrite(command, out)
        /\ wdt_set' = IF IsOk(out) THEN period ELSE wdt_set
        /\ UNCHANGED <<power_status, power_cmd, aggregator_vars>>

get_comms_watchdog_period(out) ==
    LET command == get_comms_watchdog_period_command[1]
        rx_len == get_comms_watchdog_period_command[2]
    IN  /\ last' = Completed("get_comms_watchdog_period", Unit, <<"sleep", "transfer">>,
                             command, rx_len, out,
                             Try(out, get_comms_watchdog_period_parse(out.val)))
        /\ UNCHANGED <<driver_vars, aggregator_vars>>

set_power_status(status) ==
    /\ power_status' = status
    /\ power_cmd' = status
    /\ last' = Completed("set_power_status", status, <<>>, NoCommand, 0, Ok(<<>>), Ok(Unit))
    /\ UNCHANGED <<dev_period, wdt_set, aggregator_vars>>

\* faulty variant: the state is reported as it is at construction, not as cached
get_power_status_Bug ==
    /\ last' = Completed("get_power_status", Unit, <<>>, NoCommand, 0, Ok(<<>>), Ok(TRUE))
    /\ UNCHANGED <<driver_vars, aggregator_vars>>

get_power_status ==
    /\ last' = Completed("get_power_status", Unit, <<>>, NoCommand, 0, Ok(<<>>),
                         Ok(power_status))
    /\ UNCHANGED <<driver_vars, aggregator_vars>>

raw_command(cmd, data, out) ==
    LET command == Command(cmd, data)
    IN  /\ last' = Completed("raw_command", <<cmd, data>>, <<"sleep", "write">>,
                             command, 0, out, Try(out, Ok(Unit)))
        /\ dev_period' = DeviceAfterWrite(command, out)
        /\ UNCHANGED <<power_status, power_cmd, wdt_set, aggregator_vars>>

\* count[0] of an empty vector is an index out of bounds: the method panics
get_radiation_count(now, out) ==
    LET count_request == Command(1, <<>>)
    IN  /\ last' = Completed("get_radiation_count", now, <<"transfer">>,
                             count_request, 2, out,
                             IF IsErr(out) THEN Err(I2CError(out.val))
                             ELSE IF Len(out.val) = 0 THEN Panic
                             ELSE Ok(<<now, out.val[1]>>))
        /\ UNCHANGED <<driver_vars, aggregator_vars>>

---------------------------------------------------------------------------
(* The counter aggregator: record and swap_window *)

\* a reading: one raw count per channel
Reading(k) == [c \in Channels |-> k * c]
\* raw counts the sampled device reports on its first channel
SampleCounts == {1, 7}
ReadingValues == {Reading(k) : k \in SampleCounts}

Add(a, b) == [c \in Channels |-> a[c] + b[c]]

record(reading) ==
    /\ Len(recorded) < MaxRecords
    /\ current_sum' = Add(current_sum, reading)
    /\ recorded' = Append(recorded, reading)
    /\ last' = Completed("record", reading, <<>>, NoCommand, 0, Ok(<<>>), Ok(Unit))
    /\ UNCHANGED <<driver_vars, previous_sum, window_start_timestamp>>

\* faulty variant: current is zeroed before it is copied
swap_window_Bug(now) ==
    /\ window_start_timestamp' = now - WINDOW_LENGTH
    /\ current_sum' = Zero
    /\ previous_sum' = current_sum'
    /\ recorded' = <<>>
    /\ last' = Completed("swap_window", now, <<>>, NoCommand, 0, Ok(<<>>), Ok(Unit))
    /\ UNCHANGED driver_vars

swap_window(now) ==
    /\ window_start_timestamp' = now - WINDOW_LENGTH
    /\ previous_sum' = current_sum
    /\ current_sum' = Zero
    /\ recorded' = <<>>
    /\ last' = Completed("swap_window", now, <<>>, NoCommand, 0, Ok(<<>>), Ok(Unit))
    /\ UNCHANGED driver_vars

\* the housekeeping snapshot: the window start and both sums, nothing changed
\* faulty variant: the sums are cleared once they have been read out
snapshot_Bug ==
    /\ last' = Completed("snapshot", Unit, <<>>, NoCommand, 0, Ok(<<>>),
                         Ok([window_start_timestamp |-> window_start_timestamp,
                             current_sum |-> current_sum,
                             previous_sum |-> previous_sum]))
    /\ current_sum' = Zero
    /\ previous_sum' = Zero
    /\ UNCHANGED <<driver_vars, window_start_timestamp, recorded>>

snapshot ==
    /\ last' = Completed("snapshot", Unit, <<>>, NoCommand, 0, Ok(<<>>),
                         Ok([window_start_timestamp |-> window_start_timestamp,
                             current_sum |-> current_sum,
                             previous_sum |-> previous_sum]))
    /\ UNCHANGED <<driver_vars, aggregator_vars>>

---------------------------------------------------------------------------
(* Specifications *)

NowValues == WINDOW_LENGTH..MaxNow

\* raw_command arguments: the set-period opcode and an opcode the catalog lacks
RawCmds == {33, 64}
RawData(B) == {<<>>} \cup {<<b>> : b \in B}

Reads(S, B, K) ==
    \/ \E out \in TransferOutcomes(S, B, K) : get_last_error(out)
    \/ \E t \in TelemetryTypes, out \in TransferOutcomes(S, B, K) : get_telemetry(t, out)
    \/ \E t \in ResetTypes, out \in TransferOutcomes(S, B, K) : get_reset_telemetry(t, out)
    \/ \E out \in TransferOutcomes(S, B \cup {dev_period}, K) : get_comms_watchdog_period(out)
    \/ \E now \in NowValues, out \in TransferOutcomes(S, B, K) : get_radiation_count(now, out)

Writes(B, K) ==
    \/ \E out \in WriteOutcomes(K) : manual_reset(out)
    \/ \E out \in WriteOutcomes(K) : reset_comms_watchdog(out)
    \/ \E period \in B, out \in WriteOutcomes(K) : set_comms_watchdog_period(period, out)
    \/ \E cmd \in RawCmds, data \in RawData(B), out \in WriteOutcomes(K) :
           raw_command(cmd, data, out)

Power ==
    \/ \E status \in BOOLEAN : set_power_status(status)
    \/ get_power_status

Aggregator ==
    \/ \E reading \in ReadingValues : record(reading)
    \/ \E now \in NowValues : swap_window(now)
    \/ snapshot

\* the driver against a sampled bus
Next ==
    \/ Reads(StatusBytes, SampleBytes, ErrorKinds)
    \/ Writes(SampleBytes, ErrorKinds)
    \/ Power

Spec == Init /\ [][Next]_vars

\* the driver and the aggregator side by side, against a coarse bus
NextSystem ==
    \/ Reads({0}, {0}, {"TimedOut"})
    \/ Writes({0}, {"TimedOut"})
    \/ Power
    \/ Aggregator

SpecSystem == Init /\ [][NextSystem]_vars

\* the aggregator alone
SpecAggregator == Init /\ [][Aggregator]_vars

\* last-error reads over every byte value
NextLastError ==
    \E out \in TransferOutcomes(StatusBytes, Byte, ErrorKinds) : get_last_error(out)

SpecLastError == Init /\ [][NextLastError]_vars

\* the watchdog period over every byte value: every period is written, the
\* sampled periods also against a failing bus
NextWatchdog ==
    \/ \E period \in Byte : set_comms_watchdog_period(period, Ok(<<>>))
    \/ \E period \in SampleBytes, out \in WriteOutcomes(ErrorKinds) :
           set_comms_watchdog_period(period, out)
    \/ \E out \in TransferOutcomes(StatusBytes, {dev_period}, ErrorKinds) :
           get_comms_watchdog_period(out)

SpecWatchdog == Init /\ [][NextWatchdog]_vars

\* telemetry decoding over every channel and every 16-bit sample: the
\* request and the two bytes the transport will answer with are drawn at the
\* start, and the one step is that get_telemetry call
InitTelemetry ==
    \E t \in TelemetryTypes, hi \in Byte, lo \in Byte :
        /\ power_status = TRUE
        /\ power_cmd = TRUE
        /\ dev_period = DefaultPeriod
        /\ wdt_set = -1
        /\ current_sum = Zero
        /\ previous_sum = Zero
        /\ window_start_timestamp = 0
        /\ recorded = <<>>
        /\ last = Completed("new", <<t, <<hi, lo>>>>, <<>>, NoCommand, 0, Ok(<<>>), Ok(Unit))

NextTelemetry ==
    /\ last.op = "new"
    /\ get_telemetry(last.arg[1], Ok(last.arg[2]))

SpecTelemetry == InitTelemetry /\ [][NextTelemetry]_vars

---------------------------------------------------------------------------
(* Properties *)

\* operations that decode a response
DecodedOps == {"get_last_error", "get_comms_watchdog_period", "get_telemetry",
               "get_reset_telemetry"}

\* operations that go to the bus
BusOps == DecodedOps \cup {"manual_reset", "reset_comms_watchdog",
                           "set_comms_watchdog_period", "raw_command",
                           "get_radiation_count"}

IsTransport(e) == e \in {"write", "transfer"}

TransportCalls(events) == Cardinality({i \in DOMAIN events : IsTransport(events[i])})

\* the transport answered with exactly the number of bytes it was asked for
AnsweredAsRequested == IsOk(last.resp) /\ Len(last.resp.val) = last.rx_len

\* C1: every read operation asks the transport for the length its decoder
\* accepts (2), so a transport that answers with exactly the number of bytes
\* requested is always decoded successfully.
C1_CatalogAgreesWithDecoder ==
    (last.op \in DecodedOps /\ AnsweredAsRequested) =>
        /\ last.rx_len = 2
        /\ IsOk(last.result)

C3_SourceNames(op) ==
    CASE op = "get_last_error" -> {"Last Error"}
      [] op = "get_comms_watchdog_period" -> {"Comms Watchdog Period"}
      [] op = "get_reset_telemetry" -> {"Reset Telemetry"}
      [] op = "get_telemetry" -> {"ADC Result", "Telemetry", "Voltage", "Current", "Power"}

\* C3: every decoder answers a response whose length is not 2 with a
\* ParsingFailure that names its command, never with a value.
C3_LengthMismatchIsParsingFailure ==
    (last.op \in DecodedOps /\ IsOk(last.resp) /\ Len(last.resp.val) # 2) =>
        /\ IsErr(last.result)
        /\ last.result.val.kind = "ParsingFailure"
        /\ last.result.val.detail \in C3_SourceNames(last.op)

\* C4: in every operation, each write or transfer is immediately preceded by
\* the settle delay.
C4_SettleDelayBeforeEveryTransaction ==
    \A i \in DOMAIN last.events :
        IsTransport(last.events[i]) => (i > 1 /\ last.events[i - 1] = "sleep")

\* C5: an operation that goes to the bus makes exactly one transport call,
\* and when that call fails it returns I2CError carrying the transport's
\* error kind.
C5_TransportErrorNoRetry ==
    last.op \in BusOps =>
        /\ TransportCalls(last.events) = 1
        /\ IsErr(last.resp) =>
               IsErrOf(last.result, [kind |-> "I2CError", detail |-> last.resp.val])

C5_Witness ==
    /\ last.op = "get_comms_watchdog_period"
    /\ IsErrOf(last.resp, "TimedOut")
    /\ IsErrOf(last.result, [kind |-> "I2CError", detail |-> "TimedOut"])
    /\ last.events = <<"sleep", "transfer">>

\* C6: an operation that fails (transport error, parsing failure or abort)
\* leaves the cached power state and the aggregator's sums and window start
\* as they were.
C6_FailedOperationLeavesStateUnchanged ==
    [][(last'.op \in BusOps /\ ~IsOk(last'.result)) =>
           UNCHANGED <<power_status, current_sum, previous_sum,
                       window_start_timestamp>>]_vars

C6_Witness ==
    /\ last.op \in {"get_last_error", "get_radiation_count"}
    /\ IsErr(last.result)
    /\ last.result.val.kind = "ParsingFailure" \/ last.op = "get_radiation_count"
    /\ power_status = FALSE
    /\ current_sum # Zero
    /\ previous_sum # Zero
    /\ window_start_timestamp # 0

RECURSIVE SumSeq(_)
SumSeq(readings) ==
    IF readings = <<>> THEN [c \in Channels |-> 0]
    ELSE [c \in Channels |-> SumSeq(Tail(readings))[c] + Head(readings)[c]]

\* C7: current_sum is the element-wise sum of the readings recorded since
\* the last swap; a swap, in one step, makes previous_sum the pre-swap
\* current_sum, current_sum all zero and the window start now - 30.
C7_WindowSemantics ==
    /\ [](current_sum = SumSeq(recorded))
    /\ [][last'.op = "swap_window" =>
              /\ previous_sum' = current_sum
              /\ current_sum' = [c \in Channels |-> 0]
              /\ window_start_timestamp' = last'.arg - 30]_vars

C7_Witness ==
    /\ last.op = "swap_window"
    /\ last.arg = 31
    /\ previous_sum = [c \in Channels |-> 8 * c]
    /\ current_sum = [c \in Channels |-> 0]
    /\ window_start_timestamp = 1

\* the transport echoes the stored period as the value byte of a response of
\* the requested length
EchoedPeriod ==
    /\ AnsweredAsRequested
    /\ Len(last.resp.val) >= 2
    /\ last.resp.val[2] = dev_period

\* C9: after set_comms_watchdog_period(p) succeeded with p in 1..90, a
\* get_comms_watchdog_period answered by the echoing transport returns p.
C9_SetThenGetRoundTrip ==
    (last.op = "get_comms_watchdog_period" /\ wdt_set \in 1..90 /\ EchoedPeriod) =>
        IsOkOf(last.result, wdt_set)

C9_Witness ==
    /\ last.op = "get_comms_watchdog_period"
    /\ wdt_set = 45
    /\ EchoedPeriod
    /\ IsOkOf(last.result, 45)

\* C10: set_comms_watchdog_period(p) transmits opcode 0x21 with payload [p]
\* for every byte p, and fails exactly when the transport write fails.
C10_PeriodTransmittedAsIs ==
    last.op = "set_comms_watchdog_period" =>
        /\ last.events = <<"sleep", "write">>
        /\ last.command = [cmd |-> 33, data |-> <<last.arg>>]
        /\ IsOk(last.resp) => IsOkOf(last.result, "()")
        /\ IsErr(last.resp) => IsErr(last.result)

C10_Witness ==
    /\ last.op = "set_comms_watchdog_period"
    /\ last.arg = 255
    /\ last.command = [cmd |-> 33, data |-> <<255>>]
    /\ IsOk(last.result)
    /\ dev_period = 255

\* C11: the power state is a driver-local cache: get_power_status returns the
\* argument of the most recent set_power_status call (TRUE if there was
\* none) and never fails, neither power operation goes to the bus, and no
\* other operation changes the cached value.
C11_PowerStateIsLocalCache ==
    /\ power_status = power_cmd
    /\ last.op = "get_power_status" =>
           /\ IsOkOf(last.result, power_cmd)
           /\ TransportCalls(last.events) = 0
           /\ last.command = [cmd |-> -1, data |-> <<>>]
    /\ last.op = "set_power_status" =>
           /\ IsOkOf(last.result, "()")
           /\ last.arg = power_cmd
           /\ TransportCalls(last.events) = 0
           /\ last.command = [cmd |-> -1, data |-> <<>>]

C11_Witness ==
    /\ last.op = "get_power_status"
    /\ power_cmd = FALSE
    /\ IsOkOf(last.result, FALSE)

\* the coefficients of the three channels: scale in units of 1e-9, offset
\* as <<whole, 1e-9 parts>>
C12_Scale(t) ==
    IF t = "Voltage" THEN 32253700 ELSE IF t = "Current" THEN 978131613 ELSE 979728933

C12_Offset(t) ==
    IF t = "Voltage" THEN <<0, -51236678>>
    ELSE IF t = "Current" THEN <<16, 108602910>> ELSE <<3, 627460224>>

C13_RadiationCountLengthRule ==
    (/\ last.op = "get_radiation_count"
     /\ IsOk(last.resp)
     /\ Len(last.resp.val) # last.rx_len) =>
        /\ IsErr(last.result)
        /\ last.result.val.kind = "ParsingFailure"

\* C14: the aggregator's current and previous sums change only in a
\* get_radiation_count step (whose reading the aggregator's record adds into
\* current) or in a swap_window step; every other operation, snapshot
\* included, leaves both sums as they were.
C14_AggregatorFrame ==
    [][last'.op \notin {"get_radiation_count", "record", "swap_window"} =>
           (current_sum' = current_sum /\ previous_sum' = previous_sum)]_vars

C14_Witness ==
    /\ last.op = "snapshot"
    /\ IsOk(last.result)
    /\ last.result.val.current_sum = current_sum
    /\ last.result.val.previous_sum = previous_sum
    /\ current_sum # Zero
    /\ previous_sum # Zero

=============================================================================
